---------------------------- MODULE Spec2Model ----------------------------
(***************************************************************************)
(* A model of zuu::string<CharT, N>, the fixed-capacity string, and of the *)
(* primitive algorithms of namespace zuu::detail it is built on.           *)
(*                                                                         *)
(* Memory.  A buffer is a function from indices 0..n to units; the unit 0  *)
(* is the terminator CharT{}.  A pointer is a record [id, off, m]: the     *)
(* identity of the object pointed into, the offset inside it and the       *)
(* object's units.  Two pointers are equal when id and off agree.  A write *)
(* outside a buffer's index range does not vanish: it adds the index to    *)
(* the function's domain, so DOMAIN data = 0..cap says that no write went  *)
(* past the buffer.  size_t is an unsigned integer of SizeBits bits.       *)
(***************************************************************************)
EXTENDS Integers, Sequences, FiniteSets, TLC

VARIABLES s, r, op, arg, ret, rd

vars == <<s, r, op, arg, ret, rd>>

(***************************************************************************)
(* Bounds of the model.                                                    *)
(***************************************************************************)
\* N of the container under test, string<char, Capacity>
Capacity == 3
\* M of the other container of a binary operation, string<char, TCap>
TCap == 2
\* longest raw terminated sequence passed as an argument
MaxText == 2
\* width of size_t in the model
SizeBits == 5

\* the non-zero unit values in use: ' ' and 'a'
Alphabet == {32, 97}

SizeMod == 2 ^ SizeBits
\* static_cast<std::size_t>(-1), string::npos
npos == SizeMod - 1
\* size_t subtraction and addition, modulo 2^SizeBits
SzSub(a, b) == (a - b) % SizeMod
SzAdd(a, b) == (a + b) % SizeMod
\* std::min
Min(a, b) == IF b < a THEN b ELSE a

(***************************************************************************)
(* Pointers and buffers.                                                   *)
(***************************************************************************)
NullPtr == [id |-> "null", off |-> 0, m |-> <<>>]
IsNull(p) == p.id = "null"
PtrEq(a, b) == a.id = b.id /\ a.off = b.off
PtrAdd(p, k) == [p EXCEPT !.off = @ + k]
\* the value a read outside the object yields: none of the program's units
Wild == 0 - 999
\* p[i]
At(p, i) == IF p.off + i \in DOMAIN p.m THEN p.m[p.off + i] ELSE Wild
\* buf[i] = v
Write(buf, i, v) == [j \in (DOMAIN buf) \cup {i} |-> IF j = i THEN v ELSE buf[j]]
\* static_cast<unsigned char>(ch): the byte value of a unit.  A unit is a
\* value of CharT: where plain char is signed, the bytes 0x80..0xFF are the
\* units -128..-1.
Byte(ch) == ch % 256
\* the unit a byte is, where char is signed and where it is not
CharOf(signed, byte) == IF signed /\ byte >= 128 THEN byte - 256 ELSE byte
\* a raw terminated sequence holding the units of the TLA+ sequence q
Lit(q) == [id |-> "lit", off |-> 0,
           m |-> [i \in 0..Len(q) |-> IF i < Len(q) THEN q[i + 1] ELSE 0]]
\* the units p[0 .. n) as a TLA+ sequence
Units(p, n) == [i \in 1..n |-> At(p, i - 1)]

(***************************************************************************)
(* detail::strlen                                                          *)
(***************************************************************************)
RECURSIVE strlen_scan(_, _)
strlen_scan(str, i) ==
    IF At(str, i) = 0 \/ At(str, i) = Wild THEN i ELSE strlen_scan(str, i + 1)

strlen(str) == IF IsNull(str) THEN 0 ELSE strlen_scan(str, 0)

(***************************************************************************)
(* detail::strcmp and detail::strcmp_full                                  *)
(***************************************************************************)
RECURSIVE strcmp_loop(_, _, _, _)
strcmp_loop(a, b, len, i) ==
    IF i < len
    THEN IF At(a, i) # At(b, i)
         THEN (IF At(a, i) < At(b, i) THEN 0 - 1 ELSE 1)
         ELSE strcmp_loop(a, b, len, i + 1)
    ELSE 0

strcmp(a, b, len) ==
    IF PtrEq(a, b) THEN 0
    ELSE IF IsNull(a) THEN 0 - 1
    ELSE IF IsNull(b) THEN 1
    ELSE strcmp_loop(a, b, len, 0)

\* the length tiebreak lost: equal common prefix compares equal
strcmp_full_noTie(a, len_a, b, len_b) ==
    strcmp(a, b, IF len_a < len_b THEN len_a ELSE len_b)

\* the second length test lost: a longer `a` compares equal
strcmp_full_halfTie(a, len_a, b, len_b) ==
    LET min_len == IF len_a < len_b THEN len_a ELSE len_b
        result  == strcmp(a, b, min_len)
    IN  IF result # 0 THEN result
        ELSE IF len_a < len_b THEN 0 - 1
        ELSE 0

strcmp_full(a, len_a, b, len_b) ==
    LET min_len == IF len_a < len_b THEN len_a ELSE len_b
        result  == strcmp(a, b, min_len)
    IN  IF result # 0 THEN result
        ELSE IF len_a < len_b THEN 0 - 1
        ELSE IF len_a > len_b THEN 1
        ELSE 0

(***************************************************************************)
(* detail::find_substring.  The result is a record: ret is the value       *)
(* returned, rd the set of haystack indices the scan read.                 *)
(***************************************************************************)
RECURSIVE find_match(_, _, _, _, _, _)
\* the inner loop over j at haystack position i; reads so far in acc
find_match(haystack, needle, needle_len, i, j, acc) ==
    IF j < needle_len
    THEN IF At(haystack, i + j) # At(needle, j)
         THEN [match |-> FALSE, rd |-> acc \cup {i + j}]
         ELSE find_match(haystack, needle, needle_len, i, j + 1, acc \cup {i + j})
    ELSE [match |-> TRUE, rd |-> acc]

RECURSIVE find_scan(_, _, _, _, _, _)
\* the outer loop over i
find_scan(haystack, haystack_len, needle, needle_len, i, acc) ==
    IF i <= haystack_len - needle_len
    THEN LET mt == find_match(haystack, needle, needle_len, i, 0, acc)
         IN  IF mt.match THEN [ret |-> i, rd |-> mt.rd]
             ELSE find_scan(haystack, haystack_len, needle, needle_len, i + 1, mt.rd)
    ELSE [ret |-> npos, rd |-> acc]

\* the scan runs one position too far: i <= haystack_len - needle_len + 1
find_substring_over(haystack, haystack_len, needle, needle_len, pos) ==
    IF needle_len = 0
    THEN [ret |-> IF pos <= haystack_len THEN pos ELSE npos, rd |-> {}]
    ELSE IF needle_len > haystack_len THEN [ret |-> npos, rd |-> {}]
    ELSE IF pos > haystack_len - needle_len THEN [ret |-> npos, rd |-> {}]
    ELSE find_scan(haystack, haystack_len + 1, needle, needle_len, pos, {})

find_substring(haystack, haystack_len, needle, needle_len, pos) ==
    IF needle_len = 0
    THEN [ret |-> IF pos <= haystack_len THEN pos ELSE npos, rd |-> {}]
    ELSE IF needle_len > haystack_len THEN [ret |-> npos, rd |-> {}]
    ELSE IF pos > haystack_len - needle_len THEN [ret |-> npos, rd |-> {}]
    ELSE find_scan(haystack, haystack_len, needle, needle_len, pos, {})

(***************************************************************************)
(* detail::find_char                                                       *)
(***************************************************************************)
RECURSIVE find_char_loop(_, _, _, _)
find_char_loop(str, len, ch, i) ==
    IF i < len
    THEN IF At(str, i) = ch THEN i ELSE find_char_loop(str, len, ch, i + 1)
    ELSE npos

\* the scan takes the unit at index len too: i <= len
find_char_over(str, len, ch, pos) ==
    IF pos >= len THEN npos ELSE find_char_loop(str, len + 1, ch, pos)

find_char(str, len, ch, pos) ==
    IF pos >= len THEN npos ELSE find_char_loop(str, len, ch, pos)

(***************************************************************************)
(* detail::rfind_char.  The result is [ret, rd]: the value returned and the *)
(* set of indices of str it read.                                          *)
(***************************************************************************)
\* for (i = start + 1; i > 0; --i) if (str[i - 1] == ch) return i - 1;
RECURSIVE rfind_char_loop(_, _, _, _)
rfind_char_loop(str, ch, i, seen) ==
    IF i > 0
    THEN IF At(str, SzSub(i, 1)) = ch
         THEN [ret |-> SzSub(i, 1), rd |-> seen \cup {SzSub(i, 1)}]
         ELSE rfind_char_loop(str, ch, SzSub(i, 1), seen \cup {SzSub(i, 1)})
    ELSE [ret |-> npos, rd |-> seen]

\* rfind_char that starts at pos whatever len is
rfind_char_noClamp(str, len, ch, pos) ==
    IF len = 0 THEN [ret |-> npos, rd |-> {}]
    ELSE rfind_char_loop(str, ch, SzAdd(pos, 1), {})

rfind_char(str, len, ch, pos) ==
    IF len = 0 THEN [ret |-> npos, rd |-> {}]
    ELSE LET start == IF pos >= len THEN SzSub(len, 1) ELSE pos
         IN  rfind_char_loop(str, ch, SzAdd(start, 1), {})

(***************************************************************************)
(* detail::memcpy_string, memmove_string, memset_string.  dest is a buffer *)
(* and d the offset of the destination in it.  memcpy_string yields a      *)
(* record: data is the buffer after the call, rd the set of indices of the *)
(* source object it read.  The other two yield the buffer after the call.  *)
(***************************************************************************)
\* the units a read through src sees while dest is being written: those of
\* dest itself when src points into the same object
SrcAt(dest, did, src, i) ==
    IF src.id = did
    THEN (IF src.off + i \in DOMAIN dest THEN dest[src.off + i] ELSE Wild)
    ELSE At(src, i)

RECURSIVE memcpy_loop(_, _, _, _, _, _, _)
memcpy_loop(dest, did, d, src, count, i, acc) ==
    IF i < count
    THEN memcpy_loop(Write(dest, d + i, SrcAt(dest, did, src, i)), did, d, src, count,
                     i + 1, acc \cup {src.off + i})
    ELSE [data |-> dest, rd |-> acc]

\* memcpy_string(data_ + d, src, count) on the buffer dest of object did
memcpy_string(dest, did, d, src, count) ==
    IF (src.id = did /\ src.off = d) \/ count = 0 THEN [data |-> dest, rd |-> {}]
    ELSE memcpy_loop(dest, did, d, src, count, 0, {})

RECURSIVE memmove_fwd(_, _, _, _, _)
memmove_fwd(buf, d, sr, count, i) ==
    IF i < count
    THEN memmove_fwd(Write(buf, d + i, IF sr + i \in DOMAIN buf THEN buf[sr + i] ELSE Wild),
                     d, sr, count, i + 1)
    ELSE buf

RECURSIVE memmove_bwd(_, _, _, _, _)
memmove_bwd(buf, d, sr, count, i) ==
    IF i > 0
    THEN memmove_bwd(Write(buf, d + i - 1,
                           IF sr + i - 1 \in DOMAIN buf THEN buf[sr + i - 1] ELSE Wild),
                     d, sr, count, i - 1)
    ELSE buf

\* memmove_string that always copies forward
memmove_string_fwdOnly(buf, d, sr, count) ==
    IF d = sr \/ count = 0 THEN buf
    ELSE memmove_fwd(buf, d, sr, count, 0)

\* memmove_string(buf + d, buf + sr, count): both ranges in the buffer buf
memmove_string(buf, d, sr, count) ==
    IF d = sr \/ count = 0 THEN buf
    ELSE IF d < sr THEN memmove_fwd(buf, d, sr, count, 0)
    ELSE memmove_bwd(buf, d, sr, count, count)

RECURSIVE memset_loop(_, _, _, _, _)
memset_loop(dest, d, ch, count, i) ==
    IF i < count THEN memset_loop(Write(dest, d + i, ch), d, ch, count, i + 1) ELSE dest

\* memset_string(dest + d, ch, count)
memset_string(dest, d, ch, count) == memset_loop(dest, d, ch, count, 0)

\* detail::is_space
is_space(ch) == ch = 32 \/ ch = 9 \/ ch = 10 \/ ch = 13 \/ ch = 11 \/ ch = 12

(***************************************************************************)
(* Integer to text.  T is a signed integer type of NumBits bits at least   *)
(* as wide as int (no promotion widens its arithmetic) and UT the unsigned *)
(* type of the same width.  The conversions return [buf, n, ub]: the       *)
(* buffer after the call, the count returned, and whether a signed         *)
(* operation left the range of T, which is undefined behaviour.            *)
(***************************************************************************)
NumBits == 8
NumCap == 4
UTMod == 2 ^ NumBits
TMin == 0 - 2 ^ (NumBits - 1)
TMax == 2 ^ (NumBits - 1) - 1
TRange == TMin..TMax
UTRange == 0..(UTMod - 1)
\* static_cast<UT>(v)
ToUT(v) == v % UTMod
\* the value of T a wrapped signed result is
ToT(v) == IF v % UTMod > TMax THEN (v % UTMod) - UTMod ELSE v % UTMod

\* detail::count_digits: the loop
RECURSIVE count_digits_loop(_, _)
count_digits_loop(value, digits) ==
    IF value > 0 THEN count_digits_loop(value \div 10, digits + 1) ELSE digits
\* detail::count_digits
count_digits(value) == IF value = 0 THEN 1 ELSE count_digits_loop(value, 0)

\* uint_to_chars: the loop that writes the digits from the last one on
RECURSIVE uint_digits_loop(_, _, _, _, _)
uint_digits_loop(buf, base, capacity, temp, pos) ==
    IF temp > 0 /\ pos < capacity
    THEN uint_digits_loop(Write(buf, base + pos, 48 + (temp % 10)), base, capacity,
                          temp \div 10, pos + 1)
    ELSE [buf |-> buf, pos |-> pos]
\* uint_to_chars: the loop that reverses buffer[0 .. pos)
RECURSIVE uint_reverse_loop(_, _, _, _)
uint_reverse_loop(buf, base, pos, i) ==
    IF i < pos \div 2
    THEN LET tmp == buf[base + i]
             b1 == Write(buf, base + i, buf[base + pos - 1 - i])
         IN  uint_reverse_loop(Write(b1, base + pos - 1 - i, tmp), base, pos, i + 1)
    ELSE buf
\* uint_to_chars without the reversal
uint_to_chars_noReverse(buf, base, capacity, value) ==
    IF capacity = 0 THEN [buf |-> buf, n |-> 0, ub |-> FALSE]
    ELSE IF value = 0 THEN [buf |-> Write(buf, base, 48), n |-> 1, ub |-> FALSE]
    ELSE LET w == uint_digits_loop(buf, base, capacity, value, 0)
         IN  [buf |-> w.buf, n |-> w.pos, ub |-> FALSE]
\* detail::uint_to_chars(buffer + base, capacity, value), buffer being buf
uint_to_chars(buf, base, capacity, value) ==
    IF capacity = 0 THEN [buf |-> buf, n |-> 0, ub |-> FALSE]
    ELSE IF value = 0 THEN [buf |-> Write(buf, base, 48), n |-> 1, ub |-> FALSE]
    ELSE LET w == uint_digits_loop(buf, base, capacity, value, 0)
         IN  [buf |-> uint_reverse_loop(w.buf, base, w.pos, 0), n |-> w.pos, ub |-> FALSE]

\* int_to_chars that negates every negative value
int_to_chars_negateAll(buf, capacity, value) ==
    IF capacity = 0 THEN [buf |-> buf, n |-> 0, ub |-> FALSE]
    ELSE IF value < 0
    THEN IF capacity < 2 THEN [buf |-> buf, n |-> 0, ub |-> FALSE]
         ELSE LET b1 == Write(buf, 0, 45)
                  u == uint_to_chars(b1, 1, capacity - 1, ToUT(ToT(0 - value)))
              IN  [buf |-> u.buf, n |-> 1 + u.n, ub |-> (0 - value) \notin TRange]
    ELSE LET u == uint_to_chars(buf, 0, capacity, ToUT(value))
         IN  [buf |-> u.buf, n |-> u.n, ub |-> FALSE]
\* detail::int_to_chars(buffer, capacity, value)
int_to_chars(buf, capacity, value) ==
    IF capacity = 0 THEN [buf |-> buf, n |-> 0, ub |-> FALSE]
    ELSE IF value < 0
    THEN IF capacity < 2 THEN [buf |-> buf, n |-> 0, ub |-> FALSE]
         ELSE LET b1 == Write(buf, 0, 45)
              IN  IF value = TMin
                  THEN LET uvalue == ToUT(ToUT(ToT(0 - ToT(value + 1))) + 1)
                           u == uint_to_chars(b1, 1, capacity - 1, uvalue)
                       IN  [buf |-> u.buf, n |-> 1 + u.n,
                            ub |-> (value + 1) \notin TRange
                                   \/ (0 - (value + 1)) \notin TRange]
                  ELSE LET u == uint_to_chars(b1, 1, capacity - 1, ToUT(ToT(0 - value)))
                       IN  [buf |-> u.buf, n |-> 1 + u.n, ub |-> (0 - value) \notin TRange]
    ELSE LET u == uint_to_chars(buf, 0, capacity, ToUT(value))
         IN  [buf |-> u.buf, n |-> u.n, ub |-> FALSE]

(***************************************************************************)
(* hash_fnv1a.  Its std::size_t is the one of a build where size_t has 64  *)
(* bits, the width of the two constants.  A value of it is the sequence of *)
(* its SizeTBytes bytes, the least significant first.                      *)
(***************************************************************************)
SizeTBytes == 8
\* static_cast<std::size_t>(v) of a unit or a small number, negative ones
\* sign-extended
ToSizeT(v) == [k \in 1..SizeTBytes |-> IF k = 1 THEN v % 256 ELSE IF v < 0 THEN 255 ELSE 0]
\* a ^ b on bit patterns of n bits
RECURSIVE XorBits(_, _, _)
XorBits(a, b, n) ==
    IF n = 0 THEN 0
    ELSE 2 * XorBits(a \div 2, b \div 2, n - 1) + (((a % 2) + (b % 2)) % 2)
\* a ^ b in std::size_t
XorSizeT(a, b) ==
    CHOOSE x \in {[k \in 1..SizeTBytes |-> XorBits(m[k], n[k], 8)] : m \in {a}, n \in {b}} : TRUE
\* the sum of the byte products of a and b that fall on byte k of a * b
RECURSIVE MulColumn(_, _, _, _)
MulColumn(a, b, k, i) ==
    IF i > k THEN 0 ELSE a[i] * b[k + 1 - i] + MulColumn(a, b, k, i + 1)
RECURSIVE MulCarry(_, _, _, _, _)
MulCarry(a, b, k, carry, acc) ==
    IF k > SizeTBytes THEN acc
    ELSE LET t == MulColumn(a, b, k, 1) + carry
         IN  MulCarry(a, b, k + 1, t \div 256, Append(acc, t % 256))
\* a * b in std::size_t: modulo 2^64 (m and n are the values of a and b)
MulSizeT(a, b) == CHOOSE p \in {MulCarry(m, n, 1, 0, <<>>) : m \in {a}, n \in {b}} : TRUE
RECURSIVE AddCarry(_, _, _, _, _)
AddCarry(a, b, k, carry, acc) ==
    IF k > SizeTBytes THEN acc
    ELSE LET t == a[k] + b[k] + carry
         IN  AddCarry(a, b, k + 1, t \div 256, Append(acc, t % 256))
\* a + b in std::size_t
AddSizeT(a, b) == CHOOSE p \in {AddCarry(m, n, 1, 0, <<>>) : m \in {a}, n \in {b}} : TRUE
\* the std::size_t value of a decimal literal, given as its digits
RECURSIVE Literal(_)
Literal(digits) ==
    IF digits = <<>> THEN ToSizeT(0)
    ELSE AddSizeT(MulSizeT(Literal(SubSeq(digits, 1, Len(digits) - 1)), ToSizeT(10)),
                  ToSizeT(digits[Len(digits)]))

\* 14695981039346656037ULL
FNV_OFFSET == Literal(<<1, 4, 6, 9, 5, 9, 8, 1, 0, 3, 9, 3, 4, 6, 6, 5, 6, 0, 3, 7>>)
\* 1099511628211ULL
FNV_PRIME == Literal(<<1, 0, 9, 9, 5, 1, 1, 6, 2, 8, 2, 1, 1>>)

\* hash_fnv1a that converts the unit to std::size_t directly
RECURSIVE hash_loop_noByte(_, _, _, _)
hash_loop_noByte(str, len, i, hash) ==
    IF i < len
    THEN hash_loop_noByte(str, len, i + 1,
                          MulSizeT(XorSizeT(hash, ToSizeT(At(str, i))), FNV_PRIME))
    ELSE hash
hash_fnv1a_noByte(str, len) == hash_loop_noByte(str, len, 0, FNV_OFFSET)
\* hash_fnv1a: the loop
RECURSIVE hash_loop(_, _, _, _)
hash_loop(str, len, i, hash) ==
    IF i < len
    THEN hash_loop(str, len, i + 1,
                   MulSizeT(XorSizeT(hash, ToSizeT(Byte(At(str, i)))), FNV_PRIME))
    ELSE hash
\* detail::hash_fnv1a(str, len)
hash_fnv1a(str, len) == hash_loop(str, len, 0, FNV_OFFSET)

(***************************************************************************)
(* Character case.                                                         *)
(***************************************************************************)
\* detail::to_upper that leaves 'a' as it is
detail_to_upper_afterA(ch) == IF ch > 97 /\ ch <= 122 THEN ch - 32 ELSE ch
\* detail::to_upper(char ch)
detail_to_upper(ch) == IF ch >= 97 /\ ch <= 122 THEN ch - 32 ELSE ch
\* detail::to_lower(char ch)
detail_to_lower(ch) == IF ch >= 65 /\ ch <= 90 THEN ch + 32 ELSE ch

(***************************************************************************)
(* The class string<CharT, N>.  A container is a record [cap, len, data]:  *)
(* N, len_ and data_, a buffer of N + 1 units.  An object is a container   *)
(* with its identity, [id, c].  The constructors and the mutators are the  *)
(* core of the class as section 4.2 of the specification describes it; the *)
(* searches, comparisons, substr and concat are those of                   *)
(* constant_string_algorithms.hpp.                                         *)
(***************************************************************************)
Obj(id, c) == [id |-> id, c |-> c]
\* string::data()
data(o) == [id |-> o.id, off |-> 0, m |-> o.c.data]

\* string<CharT, N>{}: the empty container
Empty(N) == [cap |-> N, len |-> 0, data |-> [i \in 0..N |-> 0]]

\* assign_impl(str, count); the result is [c, rd]: the container after the
\* call and the indices of the source that were read
assign_impl(c, id, str, count) ==
    LET n  == Min(count, c.cap)
        cp == memcpy_string(c.data, id, 0, str, n)
    IN  [c  |-> [c EXCEPT !.len = n, !.data = Write(cp.data, n, 0)],
         rd |-> cp.rd]

\* append that does not truncate: every unit given is written
append_n_unchecked(c, id, str, count) ==
    LET cp == memcpy_string(c.data, id, c.len, str, count)
    IN  [c EXCEPT !.len = c.len + count, !.data = Write(cp.data, c.len + count, 0)]

\* append(str, count): count units of str after the current end, truncated
append_n(c, id, str, count) ==
    LET k  == Min(count, c.cap - c.len)
        cp == memcpy_string(c.data, id, c.len, str, k)
    IN  [c EXCEPT !.len = c.len + k, !.data = Write(cp.data, c.len + k, 0)]

\* append(const CharT* str), operator+=(const CharT*)
append(c, id, str) == append_n(c, id, str, strlen(str))

\* append(const string<CharT, M>& other)
append_str(c, id, other) == append_n(c, id, data(other), other.c.len)

\* append(CharT ch), push_back
append_ch(c, ch) ==
    IF c.len < c.cap
    THEN [c EXCEPT !.len = c.len + 1, !.data = Write(Write(c.data, c.len, ch), c.len + 1, 0)]
    ELSE c

\* string(const CharT* str)
FromText(N, id, str) == assign_impl(Empty(N), id, str, strlen(str)).c

\* string(size_type count, CharT ch)
FromFill(N, count, ch) ==
    LET n == Min(count, N)
    IN  [cap |-> N, len |-> n, data |-> Write(memset_string(Empty(N).data, 0, ch, n), n, 0)]

\* string(const string<CharT, M>& other)
FromOther(N, id, other) == assign_impl(Empty(N), id, data(other), other.c.len).c

\* insert(pos, str, len)
insert(c, id, pos, str, len) ==
    LET p      == Min(pos, c.len)
        ins    == Min(len, c.cap - p)
        newlen == Min(c.len + ins, c.cap)
        keep   == newlen - p - ins
        moved  == memmove_string(c.data, p + ins, p, keep)
        cp     == memcpy_string(moved, id, p, str, ins)
    IN  [c EXCEPT !.len = newlen, !.data = Write(cp.data, newlen, 0)]

\* erase(pos, count)
erase(c, pos, count) ==
    IF pos >= c.len THEN c
    ELSE LET n     == Min(count, c.len - pos)
             moved == memmove_string(c.data, pos, pos + n, c.len - pos - n)
         IN  [c EXCEPT !.len = c.len - n, !.data = Write(moved, c.len - n, 0)]

\* replace(pos, count, str, len)
replace(c, id, pos, count, str, len) ==
    LET p      == Min(pos, c.len)
        n      == Min(count, c.len - p)
        ins    == Min(len, c.cap - p)
        tail   == c.len - p - n
        newlen == Min(p + ins + tail, c.cap)
        keep   == newlen - p - ins
        moved  == memmove_string(c.data, p + ins, p + n, keep)
        cp     == memcpy_string(moved, id, p, str, ins)
    IN  [c EXCEPT !.len = newlen, !.data = Write(cp.data, newlen, 0)]

RECURSIVE trim_first(_, _)
\* the index of the first unit that is no whitespace, len_ when there is none
trim_first(c, i) ==
    IF i < c.len /\ is_space(c.data[i]) THEN trim_first(c, i + 1) ELSE i

RECURSIVE trim_last(_, _, _)
\* one past the index of the last unit that is no whitespace
trim_last(c, first, e) ==
    IF e > first /\ is_space(c.data[e - 1]) THEN trim_last(c, first, e - 1) ELSE e

\* trim()
trim(c) ==
    LET first == trim_first(c, 0)
        e     == trim_last(c, first, c.len)
        n     == e - first
        moved == memmove_string(c.data, 0, first, n)
    IN  [c EXCEPT !.len = n, !.data = Write(moved, n, 0)]

RECURSIVE reverse_loop(_, _, _)
reverse_loop(buf, len, i) ==
    IF i < len \div 2
    THEN reverse_loop(Write(Write(buf, i, buf[len - 1 - i]), len - 1 - i, buf[i]), len, i + 1)
    ELSE buf

\* reverse()
reverse(c) == [c EXCEPT !.data = reverse_loop(c.data, c.len, 0)]

\* to_upper(), the member: detail::to_upper on each unit of the content
RECURSIVE to_upper_loop(_, _, _)
to_upper_loop(buf, len, i) ==
    IF i < len THEN to_upper_loop(Write(buf, i, detail_to_upper(buf[i])), len, i + 1) ELSE buf
to_upper_inplace(c) == [c EXCEPT !.data = to_upper_loop(c.data, c.len, 0)]

\* to_lower(), the member
RECURSIVE to_lower_loop(_, _, _)
to_lower_loop(buf, len, i) ==
    IF i < len THEN to_lower_loop(Write(buf, i, detail_to_lower(buf[i])), len, i + 1) ELSE buf
to_lower_inplace(c) == [c EXCEPT !.data = to_lower_loop(c.data, c.len, 0)]

(***************************************************************************)
(* constant_string_algorithms.hpp: search                                  *)
(***************************************************************************)
\* find(const CharT* str, size_type pos); the result is [ret, rd]
find(o, str, pos) ==
    IF IsNull(str) THEN [ret |-> npos, rd |-> {}]
    ELSE find_substring(data(o), o.c.len, str, strlen(str), pos)

\* find(const string<CharT, M>& str, size_type pos)
find_str(o, str, pos) == find_substring(data(o), o.c.len, data(str), str.c.len, pos)

\* find(CharT ch, size_type pos)
find_ch(o, ch, pos) == find_char(data(o), o.c.len, ch, pos)

\* rfind(CharT ch, size_type pos); the result is [ret, rd]
rfind_ch(o, ch, pos) == rfind_char(data(o), o.c.len, ch, pos)

\* contains that searches from position 1 on
contains_from1(o, str) == find(o, str, 1).ret # npos

\* contains(const CharT* str)
contains(o, str) == find(o, str, 0).ret # npos

\* contains(const string<CharT, M>& str)
contains_str(o, str) == find_str(o, str, 0).ret # npos

\* contains(CharT ch)
contains_ch(o, ch) == find_ch(o, ch, 0) # npos

(***************************************************************************)
(* constant_string_algorithms.hpp: prefix and suffix                       *)
(***************************************************************************)
\* starts_with(const CharT* prefix)
starts_with(o, prefix) ==
    IF IsNull(prefix) THEN FALSE
    ELSE LET prefix_len == strlen(prefix)
         IN  IF prefix_len > o.c.len THEN FALSE
             ELSE strcmp(data(o), prefix, prefix_len) = 0

\* ends_with that compares from the start of data_
ends_with_fromStart(o, suffix) ==
    IF IsNull(suffix) THEN FALSE
    ELSE LET suffix_len == strlen(suffix)
         IN  IF suffix_len > o.c.len THEN FALSE
             ELSE strcmp(data(o), suffix, suffix_len) = 0

\* ends_with(const CharT* suffix)
ends_with(o, suffix) ==
    IF IsNull(suffix) THEN FALSE
    ELSE LET suffix_len == strlen(suffix)
         IN  IF suffix_len > o.c.len THEN FALSE
             ELSE strcmp(PtrAdd(data(o), SzSub(o.c.len, suffix_len)), suffix, suffix_len) = 0

(***************************************************************************)
(* constant_string_algorithms.hpp: substr                                  *)
(***************************************************************************)
\* substr without the clamp of count to the units left after pos
substr_noClamp(o, pos, count) ==
    IF pos >= o.c.len THEN [c |-> Empty(o.c.cap), rd |-> {}]
    ELSE assign_impl(Empty(o.c.cap), "r", PtrAdd(data(o), pos), Min(count, o.c.len))

\* substr(pos, count); the result is [c, rd]: the container returned and the
\* indices of data_ that were read
substr(o, pos, count) ==
    IF pos >= o.c.len THEN [c |-> Empty(o.c.cap), rd |-> {}]
    ELSE LET actual_count == Min(count, SzSub(o.c.len, pos))
         IN  assign_impl(Empty(o.c.cap), "r", PtrAdd(data(o), pos), actual_count)

(***************************************************************************)
(* constant_string_algorithms.hpp: comparison                              *)
(***************************************************************************)
\* compare(const string<CharT, M>& other)
compare_str(o, other) == strcmp_full(data(o), o.c.len, data(other), other.c.len)

\* compare(const CharT* str)
compare(o, str) ==
    IF IsNull(str) THEN (IF o.c.len > 0 THEN 1 ELSE 0)
    ELSE strcmp_full(data(o), o.c.len, str, strlen(str))

\* compare(size_type pos, size_type count, const CharT* str)
compare_pos(o, pos, count, str) ==
    IF pos >= o.c.len \/ IsNull(str) THEN 0 - 1
    ELSE LET actual == Min(count, SzSub(o.c.len, pos))
         IN  strcmp_full(PtrAdd(data(o), pos), actual, str, strlen(str))

\* operator== that compares the lengths only
op_eq_lenOnly(o, other) == o.c.len = other.c.len

\* operator==(const string<CharT, M>& other)
op_eq(o, other) == o.c.len = other.c.len /\ compare_str(o, other) = 0

\* operator==(const CharT* str)
op_eq_raw(o, str) == compare(o, str) = 0

\* operator<=>(const string<CharT, M>& other)
op_cmp(o, other) ==
    LET cmp == compare_str(o, other)
    IN  IF cmp < 0 THEN "less" ELSE IF cmp > 0 THEN "greater" ELSE "equal"

\* operator<=>(const CharT* str)
op_cmp_raw(o, str) ==
    LET cmp == compare(o, str)
    IN  IF cmp < 0 THEN "less" ELSE IF cmp > 0 THEN "greater" ELSE "equal"

\* str.hash()
hash(str) == hash_fnv1a(data(str), str.c.len)

(***************************************************************************)
(* constant_string_algorithms.hpp: concat and operator+                    *)
(***************************************************************************)
\* concat whose result has the capacity of its first argument
concat_capA(a, b) ==
    LET r0 == Empty(a.c.cap)
        r1 == append_str(r0, "r", a)
    IN  append_str(r1, "r", b)

\* concat(a, b)
concat(a, b) ==
    LET r0 == Empty(a.c.cap + b.c.cap)
        r1 == append_str(r0, "r", a)
    IN  append_str(r1, "r", b)

\* operator+(a, b)
op_plus(a, b) == concat(a, b)

(***************************************************************************)
(* constant_string_algorithms.hpp: reversed                                *)
(***************************************************************************)
\* reversed that returns the copy as it is
reversed_copyOnly(str) == str.c

\* reversed(str): a copy of str, reversed in place
reversed(str) ==
    LET result == str.c
    IN  reverse(result)

\* to_upper(str): a copy of str, converted in place
to_upper(str) ==
    LET result == str.c
    IN  to_upper_inplace(result)

\* to_lower(str)
to_lower(str) ==
    LET result == str.c
    IN  to_lower_inplace(result)

(***************************************************************************)
(* The state machine.  s is the container under test, a string<char,       *)
(* Capacity>.  Each action but Return is one call on it, made when the    *)
(* caller is between calls: op names the call, arg holds its arguments,    *)
(* ret the value returned, r the container returned (the empty             *)
(* string<char, 0> when none is) and rd the indices read of the buffer the *)
(* call scans or copies from.  Return drops them.                          *)
(***************************************************************************)
\* the raw sequences passed as arguments, as unit sequences
Texts == UNION {[1..n -> Alphabet] : n \in 0..MaxText}
\* const CharT* arguments: terminated sequences and the null pointer
RawArgs == {Lit(q) : q \in Texts} \cup {NullPtr}
\* size_type arguments
PosSet == 0..(Capacity + 1) \cup {npos}
\* the object s
Self == Obj("s", s)
\* the other string<char, TCap> objects
Others == {Obj("t", FromText(TCap, "t", Lit(q))) : q \in Texts}
\* const string<CharT, M>& arguments: another object, or s itself
Operands == Others \cup {Self}
\* no container returned
NoStr == Empty(0)

\* the caller is between two calls
Ready == op = "idle"

Construct ==
    /\ Ready
    /\ \E q \in Texts :
           /\ s' = FromText(Capacity, "s", Lit(q))
           /\ op' = "construct" /\ arg' = <<>> /\ ret' = 0 /\ r' = NoStr /\ rd' = {}

ConstructFill ==
    /\ Ready
    /\ \E count \in 0..(Capacity + 1), ch \in Alphabet :
           /\ s' = FromFill(Capacity, count, ch)
           /\ op' = "construct_fill" /\ arg' = <<>> /\ ret' = 0 /\ r' = NoStr /\ rd' = {}

ConstructCopy ==
    /\ Ready
    /\ \E o \in Others :
           /\ s' = FromOther(Capacity, "s", o)
           /\ op' = "construct_copy" /\ arg' = <<>> /\ ret' = 0 /\ r' = NoStr /\ rd' = {}

AppendText ==
    /\ Ready
    /\ \E str \in RawArgs :
           /\ s' = append(s, "s", str)
           /\ op' = "append" /\ arg' = [pre |-> s, str |-> str]
           /\ ret' = 0 /\ r' = NoStr /\ rd' = {}

AppendCh ==
    /\ Ready
    /\ \E ch \in Alphabet :
           /\ s' = append_ch(s, ch)
           /\ op' = "append_ch" /\ arg' = [pre |-> s, ch |-> ch] /\ ret' = 0 /\ r' = NoStr /\ rd' = {}

AppendStr ==
    /\ Ready
    /\ \E o \in Operands :
           /\ s' = append_str(s, "s", o)
           /\ op' = "append_str" /\ arg' = [pre |-> s, str |-> data(o), n |-> o.c.len]
           /\ ret' = 0 /\ r' = NoStr /\ rd' = {}

Insert ==
    /\ Ready
    /\ \E pos \in PosSet, q \in Texts :
           /\ s' = insert(s, "s", pos, Lit(q), Len(q))
           /\ op' = "insert" /\ arg' = [pre |-> s, pos |-> pos, str |-> Lit(q), len |-> Len(q)]
           /\ ret' = 0 /\ r' = NoStr /\ rd' = {}

Erase ==
    /\ Ready
    /\ \E pos \in PosSet, count \in PosSet :
           /\ s' = erase(s, pos, count)
           /\ op' = "erase" /\ arg' = [pre |-> s, pos |-> pos, count |-> count]
           /\ ret' = 0 /\ r' = NoStr /\ rd' = {}

Replace ==
    /\ Ready
    /\ \E pos \in PosSet, count \in PosSet, q \in Texts :
           /\ s' = replace(s, "s", pos, count, Lit(q), Len(q))
           /\ op' = "replace"
           /\ arg' = [pre |-> s, pos |-> pos, count |-> count, str |-> Lit(q), len |-> Len(q)]
           /\ ret' = 0 /\ r' = NoStr /\ rd' = {}

Trim ==
    /\ Ready
    /\ s' = trim(s)
    /\ op' = "trim" /\ arg' = [pre |-> s] /\ ret' = 0 /\ r' = NoStr /\ rd' = {}

Reverse ==
    /\ Ready
    /\ s' = reverse(s)
    /\ op' = "reverse" /\ arg' = [pre |-> s] /\ ret' = 0 /\ r' = NoStr /\ rd' = {}

Substr ==
    /\ Ready
    /\ \E pos \in PosSet, count \in PosSet :
           LET res == substr(Self, pos, count)
           IN  /\ r' = res.c /\ rd' = res.rd
               /\ op' = "substr" /\ arg' = [pre |-> s, pos |-> pos, count |-> count]
               /\ ret' = 0 /\ UNCHANGED s

Concat ==
    /\ Ready
    /\ \E b \in Operands :
           /\ r' = concat(Self, b)
           /\ op' = "concat" /\ arg' = [b |-> b]
           /\ ret' = 0 /\ rd' = {} /\ UNCHANGED s

Plus ==
    /\ Ready
    /\ \E b \in Operands :
           /\ r' = op_plus(Self, b)
           /\ op' = "plus" /\ arg' = [b |-> b]
           /\ ret' = 0 /\ rd' = {} /\ UNCHANGED s

Compare ==
    /\ Ready
    /\ \E b \in Operands :
           /\ ret' = compare_str(Self, b)
           /\ op' = "compare" /\ arg' = [b |-> b]
           /\ r' = NoStr /\ rd' = {} /\ UNCHANGED s

CompareRaw ==
    /\ Ready
    /\ \E str \in RawArgs :
           /\ ret' = compare(Self, str)
           /\ op' = "compare_raw" /\ arg' = [str |-> str]
           /\ r' = NoStr /\ rd' = {} /\ UNCHANGED s

ComparePos ==
    /\ Ready
    /\ \E pos \in PosSet, count \in PosSet, str \in RawArgs :
           /\ ret' = compare_pos(Self, pos, count, str)
           /\ op' = "compare_pos" /\ arg' = [pos |-> pos, count |-> count, str |-> str]
           /\ r' = NoStr /\ rd' = {} /\ UNCHANGED s

Equals ==
    /\ Ready
    /\ \E b \in Operands :
           /\ ret' = op_eq(Self, b)
           /\ op' = "equals" /\ arg' = [b |-> b]
           /\ r' = NoStr /\ rd' = {} /\ UNCHANGED s

Spaceship ==
    /\ Ready
    /\ \E b \in Operands :
           /\ ret' = op_cmp(Self, b)
           /\ op' = "spaceship" /\ arg' = [b |-> b]
           /\ r' = NoStr /\ rd' = {} /\ UNCHANGED s

\* detail::strcmp_full on the first len_a units of s and the first len_b
\* units of a raw sequence or of s itself
StrcmpFull ==
    /\ Ready
    /\ \E b \in (RawArgs \ {NullPtr}) \cup {data(Self)} :
           \E len_a \in 0..s.len, len_b \in 0..strlen(b) :
               /\ ret' = strcmp_full(data(Self), len_a, b, len_b)
               /\ op' = "strcmp_full" /\ arg' = [len_a |-> len_a, b |-> b, len_b |-> len_b]
               /\ r' = NoStr /\ rd' = {} /\ UNCHANGED s

Find ==
    /\ Ready
    /\ \E str \in RawArgs, pos \in PosSet :
           LET res == find(Self, str, pos)
           IN  /\ ret' = res.ret /\ rd' = res.rd
               /\ op' = "find" /\ arg' = [str |-> str, pos |-> pos]
               /\ r' = NoStr /\ UNCHANGED s

\* detail::find_substring on the first hlen units of s
FindSubstring ==
    /\ Ready
    /\ \E hlen \in 0..s.len, q \in Texts, pos \in PosSet :
           LET res == find_substring(data(Self), hlen, Lit(q), Len(q), pos)
           IN  /\ ret' = res.ret /\ rd' = res.rd
               /\ op' = "find_substring"
               /\ arg' = [hlen |-> hlen, needle |-> Lit(q), nlen |-> Len(q), pos |-> pos]
               /\ r' = NoStr /\ UNCHANGED s

\* detail::find_char on the first len units of s
FindChar ==
    /\ Ready
    /\ \E len \in 0..s.len, ch \in Alphabet \cup {0}, pos \in PosSet :
           /\ ret' = find_char(data(Self), len, ch, pos)
           /\ op' = "find_char" /\ arg' = [len |-> len, ch |-> ch, pos |-> pos]
           /\ r' = NoStr /\ rd' = {} /\ UNCHANGED s

FindCh ==
    /\ Ready
    /\ \E ch \in Alphabet \cup {0}, pos \in PosSet :
           /\ ret' = find_ch(Self, ch, pos)
           /\ op' = "find_ch" /\ arg' = [ch |-> ch, pos |-> pos]
           /\ r' = NoStr /\ rd' = {} /\ UNCHANGED s

\* detail::rfind_char on the first len units of s
RfindChar ==
    /\ Ready
    /\ \E len \in 0..s.len, ch \in Alphabet \cup {0}, pos \in PosSet :
           LET res == rfind_char(data(Self), len, ch, pos)
           IN  /\ ret' = res.ret /\ rd' = res.rd
               /\ op' = "rfind_char" /\ arg' = [len |-> len, ch |-> ch, pos |-> pos]
               /\ r' = NoStr /\ UNCHANGED s

RfindCh ==
    /\ Ready
    /\ \E ch \in Alphabet \cup {0}, pos \in PosSet :
           LET res == rfind_ch(Self, ch, pos)
           IN  /\ ret' = res.ret /\ rd' = res.rd
               /\ op' = "rfind_ch" /\ arg' = [ch |-> ch, pos |-> pos]
               /\ r' = NoStr /\ UNCHANGED s

StartsWith ==
    /\ Ready
    /\ \E str \in RawArgs :
           /\ ret' = starts_with(Self, str)
           /\ op' = "starts_with" /\ arg' = [str |-> str]
           /\ r' = NoStr /\ rd' = {} /\ UNCHANGED s

EndsWith ==
    /\ Ready
    /\ \E str \in RawArgs :
           /\ ret' = ends_with(Self, str)
           /\ op' = "ends_with" /\ arg' = [str |-> str]
           /\ r' = NoStr /\ rd' = {} /\ UNCHANGED s

Reversed ==
    /\ Ready
    /\ r' = reversed(Self)
    /\ op' = "reversed" /\ arg' = [pre |-> s]
    /\ ret' = 0 /\ rd' = {} /\ UNCHANGED s

Contains ==
    /\ Ready
    /\ \E str \in RawArgs :
           /\ ret' = contains(Self, str)
           /\ op' = "contains" /\ arg' = [str |-> str]
           /\ r' = NoStr /\ rd' = {} /\ UNCHANGED s

ContainsStr ==
    /\ Ready
    /\ \E b \in Operands :
           /\ ret' = contains_str(Self, b)
           /\ op' = "contains_str" /\ arg' = [b |-> b]
           /\ r' = NoStr /\ rd' = {} /\ UNCHANGED s

ContainsCh ==
    /\ Ready
    /\ \E ch \in Alphabet :
           /\ ret' = contains_ch(Self, ch)
           /\ op' = "contains_ch" /\ arg' = [ch |-> ch]
           /\ r' = NoStr /\ rd' = {} /\ UNCHANGED s

\* the caller is done with the value the last call returned
Return ==
    /\ ~Ready
    /\ op' = "idle" /\ arg' = <<>> /\ ret' = 0 /\ r' = NoStr /\ rd' = {}
    /\ UNCHANGED s

(***************************************************************************)
(* Calls of the primitives of constant_string_detail.hpp on arguments of   *)
(* their own.                                                              *)
(***************************************************************************)
\* the bytes of the sequences compared: 'a', 0x80 and 0xC8
CmpBytes == {97, 128, 200}
\* the sequences of length n over a set of units
SeqsOf(units, n) == UNION {[1..k -> units] : k \in 0..n}
\* a raw sequence as Lit(q), an object of its own
Raw(id, q) == [Lit(q) EXCEPT !.id = id]

\* detail::strcmp(a, b, len) on two sequences of char, in a build where char
\* is signed and in one where it is not
Strcmp ==
    /\ Ready
    /\ \E signed \in BOOLEAN :
           LET units == {CharOf(signed, x) : x \in CmpBytes}
           IN  \E qa \in SeqsOf(units, MaxText), qb \in SeqsOf(units, MaxText) :
                   \E len \in 0..Min(Len(qa), Len(qb)) :
                       /\ ret' = strcmp(Raw("a", qa), Raw("b", qb), len)
                       /\ op' = "strcmp" /\ arg' = [a |-> qa, b |-> qb, len |-> len]
                       /\ r' = NoStr /\ rd' = {} /\ UNCHANGED s

\* detail::memmove_string(buf + d, buf + sr, count) on two ranges of a
\* buffer of Capacity + 1 units
Memmove ==
    /\ Ready
    /\ \E buf \in [0..Capacity -> Alphabet], d \in 0..Capacity, sr \in 0..Capacity :
           \E count \in 0..(Capacity + 1 - (IF d < sr THEN sr ELSE d)) :
               /\ ret' = memmove_string(buf, d, sr, count)
               /\ op' = "memmove" /\ arg' = [buf |-> buf, d |-> d, sr |-> sr, count |-> count]
               /\ r' = NoStr /\ rd' = {} /\ UNCHANGED s

\* the buffer the conversions write to: NumCap units
NumBuf == [i \in 0..(NumCap - 1) |-> 0]

\* detail::count_digits(value)
CountDigits ==
    /\ Ready
    /\ \E value \in UTRange :
           /\ ret' = count_digits(value)
           /\ op' = "count_digits" /\ arg' = [value |-> value]
           /\ r' = NoStr /\ rd' = {} /\ UNCHANGED s

\* detail::uint_to_chars(buffer, capacity, value)
UintToChars ==
    /\ Ready
    /\ \E value \in UTRange, capacity \in 0..NumCap :
           /\ ret' = uint_to_chars(NumBuf, 0, capacity, value)
           /\ op' = "uint_to_chars" /\ arg' = [value |-> value, capacity |-> capacity]
           /\ r' = NoStr /\ rd' = {} /\ UNCHANGED s

\* detail::int_to_chars(buffer, capacity, value)
IntToChars ==
    /\ Ready
    /\ \E value \in TRange, capacity \in 0..NumCap :
           /\ ret' = int_to_chars(NumBuf, capacity, value)
           /\ op' = "int_to_chars" /\ arg' = [value |-> value, capacity |-> capacity]
           /\ r' = NoStr /\ rd' = {} /\ UNCHANGED s

\* the bytes of the sequences hashed: 'a' and 0xC8
HashBytes == {97, 200}

\* detail::hash_fnv1a(str, len) on the first len units of a sequence of
\* char, in a build where char is signed and in one where it is not
HashFnv1a ==
    /\ Ready
    /\ \E signed \in BOOLEAN :
           \E q \in SeqsOf({CharOf(signed, x) : x \in HashBytes}, MaxText) :
               \E len \in 0..Len(q) :
                   /\ ret' = hash_fnv1a(Raw("a", q), len)
                   /\ op' = "hash_fnv1a" /\ arg' = [q |-> q, len |-> len]
                   /\ r' = NoStr /\ rd' = {} /\ UNCHANGED s

\* s.hash() and o.hash()
Hash ==
    /\ Ready
    /\ \E o \in Others :
           /\ ret' = [s |-> hash(Self), o |-> hash(o)]
           /\ op' = "hash" /\ arg' = [o |-> o]
           /\ r' = NoStr /\ rd' = {} /\ UNCHANGED s

(***************************************************************************)
(* Calls of the case conversions, on a string<char, Capacity> built from   *)
(* the letters at the two ends of each case and the units next to them.    *)
(***************************************************************************)
\* '@', 'A', 'Z', '[', '`', 'a', 'z', '{'
CaseUnits == {64, 65, 90, 91, 96, 97, 122, 123}

ConstructCase ==
    /\ Ready
    /\ \E q \in SeqsOf(CaseUnits, MaxText) :
           /\ s' = FromText(Capacity, "s", Lit(q))
           /\ op' = "construct" /\ arg' = [str |-> q]
           /\ ret' = 0 /\ r' = NoStr /\ rd' = {}

ToUpper ==
    /\ Ready
    /\ r' = to_upper(Self)
    /\ op' = "to_upper" /\ arg' = [pre |-> s]
    /\ ret' = 0 /\ rd' = {} /\ UNCHANGED s

ToLower ==
    /\ Ready
    /\ r' = to_lower(Self)
    /\ op' = "to_lower" /\ arg' = [pre |-> s]
    /\ ret' = 0 /\ rd' = {} /\ UNCHANGED s

ToUpperInPlace ==
    /\ Ready
    /\ s' = to_upper_inplace(s)
    /\ op' = "to_upper()" /\ arg' = [pre |-> s]
    /\ ret' = 0 /\ r' = NoStr /\ rd' = {}

ToLowerInPlace ==
    /\ Ready
    /\ s' = to_lower_inplace(s)
    /\ op' = "to_lower()" /\ arg' = [pre |-> s]
    /\ ret' = 0 /\ r' = NoStr /\ rd' = {}

Init ==
    /\ s = Empty(Capacity)
    /\ r = NoStr
    /\ op = "idle"
    /\ arg = <<>>
    /\ ret = 0
    /\ rd = {}

Next ==
    \/ Construct \/ ConstructFill \/ ConstructCopy
    \/ AppendText \/ AppendCh \/ AppendStr
    \/ Insert \/ Erase \/ Replace \/ Trim \/ Reverse
    \/ Substr \/ Concat \/ Plus
    \/ Compare \/ CompareRaw \/ ComparePos \/ Equals \/ Spaceship \/ StrcmpFull
    \/ Find \/ FindSubstring \/ Contains \/ ContainsStr \/ ContainsCh
    \/ FindChar \/ FindCh \/ StartsWith \/ EndsWith \/ Reversed
    \/ HashFnv1a \/ Hash
    \/ RfindChar \/ RfindCh
    \/ Return

Spec == Init /\ [][Next]_vars

NextPrim ==
    \/ Strcmp \/ Memmove
    \/ CountDigits \/ UintToChars \/ IntToChars
    \/ Return

SpecPrim == Init /\ [][NextPrim]_vars

NextCase ==
    \/ ConstructCase
    \/ ToUpper \/ ToLower
    \/ ToUpperInPlace \/ ToLowerInPlace
    \/ Return

SpecCase == Init /\ [][NextCase]_vars
(***************************************************************************)
(* Properties.                                                             *)
(***************************************************************************)
\* the content of a container: its units [0, len) as a sequence
Content(c) == [i \in 1..c.len |-> c.data[i - 1]]
\* the length and terminator invariants of a container, and no write past
\* its buffer of cap + 1 units
WellFormed(c) ==
    /\ c.len \in 0..c.cap
    /\ DOMAIN c.data = 0..c.cap
    /\ c.data[c.len] = 0

\* C1: after any sequence of constructions, appends, inserts, erases,
\* replaces, trims, reverses, substrs and concats, every container that
\* exists has 0 <= length <= capacity and the terminator at buffer[length],
\* and no index past the capacity was written.
C1_ContainerInvariant ==
    /\ s.cap = Capacity
    /\ WellFormed(s)
    /\ WellFormed(r)
    /\ \A o \in Others : WellFormed(o.c)

\* an insert that had to drop units to stay within the capacity
C1_Witness ==
    /\ op = "insert"
    /\ arg.pre.len + arg.len > Capacity
    /\ arg.pos < arg.pre.len
    /\ s.len = Capacity

\* the units a call of append was given: of a raw sequence those before its
\* terminator, of a container its content, of a character the one unit
AppendCount ==
    IF op = "append" THEN strlen(arg.str) ELSE IF op = "append_str" THEN arg.n ELSE 1
AppendUnit(i) == IF op = "append_ch" THEN arg.ch ELSE At(arg.str, i)

\* C2: append of k units to a container of length L and capacity C keeps
\* the first L units, writes the first min(k, C - L) units given after
\* them and sets the length to min(L + k, C); a capacity-1 empty container
\* given "ab" ends as "a", length 1.
C2_AppendTruncates ==
    /\ op \in {"append", "append_str", "append_ch"} =>
           LET L == arg.pre.len
               k == AppendCount
           IN  /\ s.len = Min(L + k, Capacity)
               /\ \A i \in 0..(L - 1) : s.data[i] = arg.pre.data[i]
               /\ \A i \in 0..(Min(k, Capacity - L) - 1) : s.data[L + i] = AppendUnit(i)
    /\ LET c == append(Empty(1), "s", Lit(<<97, 98>>))
       IN  c.len = 1 /\ c.data = [i \in 0..1 |-> IF i = 0 THEN 97 ELSE 0]

\* an append to a non-empty container of more units than fit
C2_Witness ==
    /\ op = "append"
    /\ arg.pre.len > 0
    /\ arg.pre.len < Capacity
    /\ arg.pre.len + strlen(arg.str) > Capacity

\* C3: concat(a, b) and a + b have capacity N1 + N2, length a.length +
\* b.length and as content the units of a followed by those of b.
C3_ConcatExact ==
    op \in {"concat", "plus"} =>
        /\ r.cap = s.cap + arg.b.c.cap
        /\ r.len = s.len + arg.b.c.len
        /\ Content(r) = Content(s) \o Content(arg.b.c)

\* two full containers concatenated by operator+
C3_Witness ==
    /\ op = "plus"
    /\ s.len = Capacity
    /\ arg.b.id = "t"
    /\ arg.b.c.len = TCap

\* C4: s.substr(pos, count) has the capacity of s, is empty when pos >=
\* s.length and else holds the min(count, s.length - pos) units from pos on;
\* s is unchanged and no unit at an index >= s.length is read.
C4_Substr ==
    op = "substr" =>
        /\ r.cap = s.cap
        /\ s = arg.pre
        /\ rd \subseteq 0..(s.len - 1)
        /\ arg.pos >= s.len => r.len = 0
        /\ arg.pos < s.len =>
               /\ r.len = Min(arg.count, s.len - arg.pos)
               /\ \A i \in 0..(r.len - 1) : r.data[i] = s.data[arg.pos + i]

\* substr(pos, npos) from inside the content
C4_Witness ==
    /\ op = "substr"
    /\ arg.count = npos
    /\ arg.pos > 0
    /\ arg.pos + 1 < s.len
    /\ r.len = s.len - arg.pos

\* C5: contains(x) is true exactly when find(x) from position 0 is not
\* npos, for a raw sequence (the null one included), a container and a
\* character.
C5_ContainsIffFind ==
    /\ op = "contains" => (ret <=> find(Self, arg.str, 0).ret # npos)
    /\ op = "contains_str" => (ret <=> find_str(Self, arg.b, 0).ret # npos)
    /\ op = "contains_ch" => (ret <=> find_ch(Self, arg.ch, 0) # npos)

\* a raw sequence found, but not at position 0
C5_Witness ==
    /\ op = "contains"
    /\ ret
    /\ strlen(arg.str) > 0
    /\ find(Self, arg.str, 0).ret > 0

\* C6: compare(a, a) = 0 and compare(a, b) = -compare(b, a).
C6_CompareAntisymmetric ==
    op = "compare" =>
        /\ ret = 0 - compare_str(arg.b, Self)
        /\ compare_str(Self, Self) = 0
        /\ compare_str(arg.b, arg.b) = 0

\* a container compared with a proper prefix of it held by another one
C6_Witness ==
    /\ op = "compare"
    /\ arg.b.id = "t"
    /\ arg.b.c.len > 0
    /\ arg.b.c.len < s.len
    /\ ret = 1
    /\ \A i \in 0..(arg.b.c.len - 1) : arg.b.c.data[i] = s.data[i]

\* C7: a == b iff a.compare(b) = 0 iff a <=> b is equal; a <=> b is less
\* exactly when a.compare(b) < 0 and greater exactly when it is > 0.
C7_ComparisonsAgree ==
    /\ op = "equals" => (ret <=> compare_str(Self, arg.b) = 0)
    /\ op = "spaceship" =>
           LET cmp == compare_str(Self, arg.b)
           IN  /\ ret = "equal" <=> cmp = 0
               /\ ret = "less" <=> cmp < 0
               /\ ret = "greater" <=> cmp > 0
               /\ ret = "equal" <=> op_eq(Self, arg.b)

\* operator== on two different contents of the same length
C7_Witness ==
    /\ op = "equals"
    /\ ~ret
    /\ s.len > 0
    /\ s.len = arg.b.c.len

\* C8: strcmp_full(a, la, b, lb) = 0 iff la = lb and the sequences agree
\* unit for unit; a proper prefix compares as less.
C8_CompareFullEquality ==
    op = "strcmp_full" =>
        LET a  == Units(data(Self), arg.len_a)
            b  == Units(arg.b, arg.len_b)
        IN  /\ ret = 0 <=> (arg.len_a = arg.len_b /\ a = b)
            /\ (arg.len_a < arg.len_b /\ a = SubSeq(b, 1, arg.len_a)) => ret < 0
            /\ (arg.len_b < arg.len_a /\ b = SubSeq(a, 1, arg.len_b)) => ret > 0

\* a non-empty proper prefix compared with the longer sequence
C8_Witness ==
    /\ op = "strcmp_full"
    /\ arg.len_a > 0
    /\ arg.len_a < arg.len_b
    /\ Units(data(Self), arg.len_a) = Units(arg.b, arg.len_a)
    /\ ret < 0

\* C9: against the null raw sequence the container compares as strictly
\* greater, for every content, in compare(str) and in compare(pos, count,
\* str).
C9_NullIsLess ==
    /\ (op = "compare_raw" /\ IsNull(arg.str)) => ret > 0
    /\ (op = "compare_pos" /\ IsNull(arg.str)) => ret > 0

\* haystack[i .. i + nlen) lies in the haystack and equals the needle
Occurs(haystack, hlen, needle, nlen, i) ==
    /\ i + nlen <= hlen
    /\ \A j \in 0..(nlen - 1) : At(haystack, i + j) = At(needle, j)
\* the least position >= pos where the needle occurs, npos without one
FirstOccurrence(haystack, hlen, needle, nlen, pos) ==
    LET hits == {i \in 0..hlen : i >= pos /\ Occurs(haystack, hlen, needle, nlen, i)}
    IN  IF hits = {} THEN npos ELSE CHOOSE i \in hits : \A k \in hits : i <= k

\* C10: find_substring returns the least i >= pos with i + nLen <= hLen
\* where the needle occurs, npos when there is none; an empty needle gives
\* pos when pos <= hLen and npos otherwise; no index >= hLen is read.
C10_FindSubstring ==
    /\ op = "find_substring" =>
           /\ ret = FirstOccurrence(data(Self), arg.hlen, arg.needle, arg.nlen, arg.pos)
           /\ arg.nlen = 0 => ret = (IF arg.pos <= arg.hlen THEN arg.pos ELSE npos)
           /\ rd \subseteq 0..(arg.hlen - 1)
    /\ (op = "find" /\ ~IsNull(arg.str)) =>
           /\ ret = FirstOccurrence(data(Self), s.len, arg.str, strlen(arg.str), arg.pos)
           /\ rd \subseteq 0..(s.len - 1)

\* a needle of two units found after a first position that does not match
C10_Witness ==
    /\ op = "find_substring"
    /\ arg.nlen = 2
    /\ arg.hlen = s.len
    /\ ret # npos
    /\ ret > arg.pos

\* the least index i with pos <= i < len and str[i] = ch, npos without one
FirstChar(str, len, ch, pos) ==
    LET hits == {i \in 0..(len - 1) : i >= pos /\ At(str, i) = ch}
    IN  IF hits = {} THEN npos ELSE CHOOSE i \in hits : \A k \in hits : i <= k

\* C11: find_char returns the least index i with pos <= i < len and
\* seq[i] = ch, and npos (the maximum size value) when there is none, so
\* whenever pos >= len; a value other than npos is < len.
C11_FindChar ==
    /\ op = "find_char" =>
           /\ ret = FirstChar(data(Self), arg.len, arg.ch, arg.pos)
           /\ arg.pos >= arg.len => ret = npos
           /\ ret # npos => ret < arg.len
    /\ op = "find_ch" =>
           /\ ret = FirstChar(data(Self), s.len, arg.ch, arg.pos)
           /\ arg.pos >= s.len => ret = npos
           /\ ret # npos => ret < s.len

\* a character found after the start position, with an earlier occurrence
\* before it
C11_Witness ==
    /\ op = "find_char"
    /\ arg.pos > 0
    /\ ret # npos
    /\ ret > arg.pos
    /\ At(data(Self), 0) = arg.ch

\* C16: for a raw sequence p of k units, starts_with(p) iff k <= length
\* and s[0 .. k) = p; ends_with(p) iff k <= length and s[length - k ..
\* length) = p; both hold of the empty sequence and neither of the null
\* one.
C16_PrefixSuffix ==
    /\ op = "starts_with" =>
           LET k == strlen(arg.str)
           IN  /\ IsNull(arg.str) => ~ret
               /\ ~IsNull(arg.str) =>
                      (ret <=> (k <= s.len /\ SubSeq(Content(s), 1, k) = Units(arg.str, k)))
               /\ (~IsNull(arg.str) /\ k = 0) => ret
    /\ op = "ends_with" =>
           LET k == strlen(arg.str)
           IN  /\ IsNull(arg.str) => ~ret
               /\ ~IsNull(arg.str) =>
                      (ret <=> (k <= s.len
                                /\ SubSeq(Content(s), s.len - k + 1, s.len) = Units(arg.str, k)))
               /\ (~IsNull(arg.str) /\ k = 0) => ret

\* a suffix that is not a prefix
C16_Witness ==
    /\ op = "ends_with"
    /\ ret
    /\ strlen(arg.str) > 0
    /\ strlen(arg.str) < s.len
    /\ ~starts_with(Self, arg.str)

\* the sequence q back to front
Rev(q) == [i \in 1..Len(q) |-> q[Len(q) + 1 - i]]

\* C14: reversed(s) has the length and capacity of s and unit i equal to
\* s[length - 1 - i]; s is unchanged; reversing twice gives the content
\* of s.
C14_Reversed ==
    /\ op = "reversed" =>
           /\ r.len = s.len
           /\ r.cap = s.cap
           /\ \A i \in 0..(s.len - 1) : r.data[i] = s.data[s.len - 1 - i]
           /\ r.data[r.len] = 0
           /\ s = arg.pre
           /\ Content(reversed(Obj("r", r))) = Content(s)
    /\ op = "reverse" =>
           /\ s.len = arg.pre.len
           /\ Content(s) = Rev(Content(arg.pre))
           /\ Content(reverse(s)) = Content(arg.pre)

\* a full container that is no palindrome, reversed
C14_Witness ==
    /\ op = "reversed"
    /\ s.len = Capacity
    /\ Content(r) # Content(s)

\* C20: detail::strcmp(a, b, n) compares the first n units of two sequences
\* as unsigned values: it returns 0 when they are all equal, and otherwise a
\* negative or a positive value as the byte of a at the first difference is
\* below or above the byte of b.
C20_StrcmpUnsigned ==
    op = "strcmp" =>
        LET a == arg.a
            b == arg.b
            diff == {i \in 1..arg.len : a[i] # b[i]}
        IN  /\ diff = {} => ret = 0
            /\ diff # {} =>
                   LET i == CHOOSE x \in diff : \A y \in diff : x <= y
                   IN  /\ Byte(a[i]) < Byte(b[i]) => ret < 0
                       /\ Byte(a[i]) > Byte(b[i]) => ret > 0

\* the part of C20 that holds in both builds: 0 exactly when the first n
\* units are equal, and the sign of the difference of the two units as values
\* of CharT otherwise
StrcmpAsCharT ==
    op = "strcmp" =>
        LET a == arg.a
            b == arg.b
            diff == {i \in 1..arg.len : a[i] # b[i]}
        IN  /\ diff = {} <=> ret = 0
            /\ diff # {} =>
                   LET i == CHOOSE x \in diff : \A y \in diff : x <= y
                   IN  ret = (IF a[i] < b[i] THEN 0 - 1 ELSE 1)

\* C13: memmove_string(dest, src, count) leaves in the count units at dest
\* the values the count units at src held before the call, whether or not the
\* two ranges overlap and whichever comes first, and changes no other unit.
C13_Memmove ==
    op = "memmove" =>
        /\ DOMAIN ret = DOMAIN arg.buf
        /\ \A i \in 0..(arg.count - 1) : ret[arg.d + i] = arg.buf[arg.sr + i]
        /\ \A j \in DOMAIN arg.buf :
               (j < arg.d \/ j >= arg.d + arg.count) => ret[j] = arg.buf[j]

\* a call whose destination starts inside the source range, on a source whose
\* first two units differ
C13_Witness ==
    /\ op = "memmove"
    /\ arg.sr < arg.d /\ arg.d < arg.sr + arg.count
    /\ arg.buf[arg.sr] # arg.buf[arg.sr + 1]
    /\ ret # arg.buf

\* 10 to the power n
RECURSIVE Pow10(_)
Pow10(n) == IF n = 0 THEN 1 ELSE 10 * Pow10(n - 1)
\* the number of digits of the base-10 text of v
DigitCount(v) == CHOOSE n \in 1..(NumBits + 1) : v < Pow10(n) /\ (n > 1 => v >= Pow10(n - 1))
\* the base-10 text of v, most significant digit first, as units
DecimalText(v) == [i \in 1..DigitCount(v) |-> 48 + ((v \div Pow10(DigitCount(v) - i)) % 10)]
\* the units of buf at base .. base + n - 1 are the sequence q
Holds(buf, base, q) == \A i \in 1..Len(q) : base + i - 1 \in DOMAIN buf /\ buf[base + i - 1] = q[i]
\* the units of buf from index from on are those of NumBuf, and no others exist
Untouched(buf, from) ==
    /\ DOMAIN buf = DOMAIN NumBuf
    /\ \A i \in DOMAIN NumBuf : i >= from => buf[i] = NumBuf[i]

\* C19: count_digits(value) is the number of base-10 digits of value, 1 for
\* 0.  With capacity >= count_digits(value), uint_to_chars writes exactly the
\* digits of value, most significant first, to buffer[0 .. count_digits) and
\* returns count_digits(value); with capacity 0 it writes nothing and returns
\* 0; with every capacity it returns at most capacity and writes no unit at
\* an index >= capacity.
C19_UintToChars ==
    /\ op = "count_digits" =>
           /\ ret = DigitCount(arg.value)
           /\ arg.value = 0 => ret = 1
    /\ op = "uint_to_chars" =>
           LET n == count_digits(arg.value)
           IN  /\ arg.capacity >= n =>
                      /\ ret.n = n
                      /\ Holds(ret.buf, 0, DecimalText(arg.value))
                      /\ Untouched(ret.buf, n)
               /\ arg.capacity = 0 => ret.n = 0 /\ ret.buf = NumBuf
               /\ ret.n <= arg.capacity
               /\ Untouched(ret.buf, arg.capacity)

\* a value of three digits converted with room for all of them
C19_Witness ==
    /\ op = "uint_to_chars"
    /\ arg.value >= 100 /\ arg.capacity >= 3
    /\ ret.n = 3
    /\ ret.buf[0] # ret.buf[2]

\* C17: with a capacity, not 0, below the number of digits of value,
\* uint_to_chars writes the leading capacity digits of the base-10 text of
\* value and returns capacity.
C17_TruncatesToLeading ==
    (op = "uint_to_chars" /\ arg.capacity > 0 /\ arg.capacity < count_digits(arg.value)) =>
        /\ ret.n = arg.capacity
        /\ Holds(ret.buf, 0, SubSeq(DecimalText(arg.value), 1, arg.capacity))

\* what uint_to_chars does with such a capacity: it returns capacity and
\* writes the trailing capacity digits of the text
UintTruncatesToTrailing ==
    (op = "uint_to_chars" /\ arg.capacity > 0 /\ arg.capacity < count_digits(arg.value)) =>
        LET n == count_digits(arg.value)
        IN  /\ ret.n = arg.capacity
            /\ Holds(ret.buf, 0, SubSeq(DecimalText(arg.value), n - arg.capacity + 1, n))

\* C18: with capacity for the whole text, int_to_chars writes '-' and the
\* digits of |value| for a negative value, and the digits alone otherwise,
\* and returns the number of units written; no signed operation overflows,
\* the most negative value included.  For a negative value and a capacity
\* below 2 it returns 0.  It never returns more than capacity.
C18_IntToChars ==
    op = "int_to_chars" =>
        LET v == arg.value
            mag == IF v < 0 THEN 0 - v ELSE v
            text == IF v < 0 THEN <<45>> \o DecimalText(mag) ELSE DecimalText(mag)
        IN  /\ arg.capacity >= Len(text) =>
                   /\ ret.n = Len(text)
                   /\ Holds(ret.buf, 0, text)
                   /\ Untouched(ret.buf, ret.n)
            /\ ~ret.ub
            /\ (v < 0 /\ arg.capacity < 2) => ret.n = 0
            /\ ret.n <= arg.capacity
            /\ Untouched(ret.buf, arg.capacity)

\* the most negative value converted with room for the whole text
C18_Witness ==
    /\ op = "int_to_chars"
    /\ arg.value = TMin /\ arg.capacity = NumCap
    /\ ret.n = 1 + DigitCount(0 - TMin)
    /\ ret.buf[0] = 45

\* 64-bit FNV-1a of a sequence of bytes: the offset basis for the empty
\* sequence; the hash of the sequence without its last byte, XOR that byte,
\* times the prime
RECURSIVE FNV1a(_)
FNV1a(bytes) ==
    IF bytes = <<>> THEN FNV_OFFSET
    ELSE MulSizeT(XorSizeT(FNV1a(SubSeq(bytes, 1, Len(bytes) - 1)),
                           ToSizeT(bytes[Len(bytes)])),
                  FNV_PRIME)
\* the bytes of a sequence of units
Bytes(q) == [i \in 1..Len(q) |-> Byte(q[i])]

\* C12: hash_fnv1a(str, len) is the 64-bit FNV-1a of the byte values of the
\* first len units, in index order (0xcbf29ce484222325 for no unit,
\* 0xaf63dc4c8601ec8c for the one unit 'a'); it does not depend on the units
\* from len on, and two containers of equal content have the same hash,
\* whatever their capacities and the units after their length.
C12_HashFnv1a ==
    /\ op = "hash_fnv1a" =>
           /\ ret = FNV1a(Bytes(SubSeq(arg.q, 1, arg.len)))
           /\ arg.len = 0 => ret = <<37, 35, 34, 132, 228, 156, 242, 203>>
           /\ (arg.len = 1 /\ arg.q[1] = 97) => ret = <<140, 236, 1, 134, 76, 220, 99, 175>>
    /\ op = "hash" =>
           /\ ret.s = FNV1a(Bytes(Content(s)))
           /\ ret.o = FNV1a(Bytes(Content(arg.o.c)))
           /\ Content(s) = Content(arg.o.c) => ret.s = ret.o

\* the hash of two units, the first of them a byte above 0x7F in a build
\* where char is signed, with the length passed
C12_Witness ==
    /\ op = "hash_fnv1a"
    /\ arg.len = 2 /\ arg.q[1] < 0
    /\ ret # FNV_OFFSET

\* the letter of the other case: unit k of one alphabet for unit k of the
\* other, and every other unit itself
Upper(u) == IF \E k \in 0..25 : u = 97 + k THEN 65 + (CHOOSE k \in 0..25 : u = 97 + k) ELSE u
Lower(u) == IF \E k \in 0..25 : u = 65 + k THEN 97 + (CHOOSE k \in 0..25 : u = 65 + k) ELSE u
UpperText(q) == [i \in 1..Len(q) |-> Upper(q[i])]
LowerText(q) == [i \in 1..Len(q) |-> Lower(q[i])]

\* C15: to_upper maps each unit 'a'..'z' to its capital and leaves every
\* other unit as it is, and to_lower the reverse; both keep the length; the
\* functions that return a copy leave their argument unchanged; converting
\* twice gives the content of converting once.
C15_CaseMapping ==
    /\ op = "to_upper" =>
           /\ r.len = s.len /\ r.cap = s.cap
           /\ Content(r) = UpperText(Content(s))
           /\ r.data[r.len] = 0
           /\ s = arg.pre
           /\ Content(to_upper(Obj("r", r))) = Content(r)
    /\ op = "to_lower" =>
           /\ r.len = s.len /\ r.cap = s.cap
           /\ Content(r) = LowerText(Content(s))
           /\ r.data[r.len] = 0
           /\ s = arg.pre
           /\ Content(to_lower(Obj("r", r))) = Content(r)
    /\ op = "to_upper()" =>
           /\ s.len = arg.pre.len
           /\ Content(s) = UpperText(Content(arg.pre))
           /\ to_upper_inplace(s) = s
    /\ op = "to_lower()" =>
           /\ s.len = arg.pre.len
           /\ Content(s) = LowerText(Content(arg.pre))
           /\ to_lower_inplace(s) = s

\* "a{" converted to "A{"
C15_Witness ==
    /\ op = "to_upper"
    /\ Content(s) = <<97, 123>>
    /\ Content(r) = <<65, 123>>

\* the greatest index i with i <= pos, i < len and str[i] = ch, npos
\* without one
LastChar(str, len, ch, pos) ==
    LET hits == {i \in 0..(len - 1) : i <= pos /\ At(str, i) = ch}
    IN  IF hits = {} THEN npos ELSE CHOOSE i \in hits : \A k \in hits : i >= k

\* C21: rfind_char returns the greatest index i <= min(pos, len - 1) with
\* seq[i] = ch, and npos when there is none, so whenever len = 0; the
\* backward loop ends, its index never wraps below 0, and it reads no unit
\* at an index >= len.
C21_RfindChar ==
    /\ op = "rfind_char" =>
           /\ ret = LastChar(data(Self), arg.len, arg.ch, arg.pos)
           /\ arg.len = 0 => ret = npos
           /\ ret # npos => ret < arg.len /\ ret <= arg.pos
           /\ rd \subseteq 0..(arg.len - 1)
    /\ op = "rfind_ch" =>
           /\ ret = LastChar(data(Self), s.len, arg.ch, arg.pos)
           /\ s.len = 0 => ret = npos
           /\ ret # npos => ret < s.len /\ ret <= arg.pos
           /\ rd \subseteq 0..(s.len - 1)

\* a search from npos that passes the last unit and finds the character
\* before it
C21_Witness ==
    /\ op = "rfind_char"
    /\ arg.pos = npos /\ arg.len >= 2
    /\ ret # npos /\ ret < arg.len - 1
    /\ arg.len - 1 \in rd
=============================================================================
